---- MODULE Spec2Model ----
(***************************************************************************)
(* hf_downloader.py: a command line program that lists the files of a      *)
(* dataset repository, narrows the list by extension and count, and        *)
(* downloads the remaining files with a thread pool, tallying one outcome  *)
(* per file.                                                               *)
(*                                                                         *)
(* Text is modelled as sequences of one-character strings, so that         *)
(* lower(), strip(), split(), startswith() and endswith() are computed     *)
(* and not assumed.  Optional values are records: None, or Some(v).        *)
(***************************************************************************)
EXTENDS Integers, Sequences, FiniteSets, TLC

VARIABLES
    args,           \* the parsed argparse.Namespace
    env,            \* the world outside: the repository's answer, tqdm
    pc,             \* where main() is
    files,          \* main's local `files`
    exit_code,      \* the process's exit status, -1 while it runs
    fs,             \* the local filesystem: directories made, files written
    submitted,      \* how many futures executor.submit has made
    thr,            \* thread of the pool -> the item it runs (0: idle)
    st,             \* item -> where its download_file call is
    result,         \* item -> what its future holds
    pending,        \* the futures as_completed has not yielded yet
    collected,      \* item -> how many times the loop received its outcome
    success_count,
    fail_count,
    progress_n,     \* ticks given to the progress bar
    printed,        \* item -> how many times its message was printed
    filtered,       \* what the last filter_files call produced
    took,           \* item -> what the network and the disk answered its call
    prev            \* what an earlier run of the same command left

vars == << args, env, pc, files, exit_code, fs, submitted, thr, st, result,
           pending, collected, success_count, fail_count, progress_n,
           printed, filtered, took, prev >>

(***************************************************************************)
(* Bounds of the model.                                                    *)
(***************************************************************************)
MaxFiles == 2       \* longest repository listing of a program run
MaxThreads == 2     \* largest --threads value
MaxLimit == 1       \* largest --limit value of a program run
NumChunks == 1      \* chunks in one response body
MaxManifest == 3    \* longest manifest given to filter_files on its own
MaxCap == 3         \* largest limit given to filter_files on its own

(***************************************************************************)
(* Optional values.                                                        *)
(***************************************************************************)
None == [some |-> FALSE]
Some(v) == [some |-> TRUE, val |-> v]

(***************************************************************************)
(* Text.                                                                   *)
(***************************************************************************)
Lower(c) ==
    CASE c = "P" -> "p"
      [] c = "N" -> "n"
      [] c = "G" -> "g"
      [] c = "B" -> "b"
      [] OTHER -> c

LowerStr(s) == [i \in 1..Len(s) |-> Lower(s[i])]

StartsWith(s, p) == Len(p) <= Len(s) /\ SubSeq(s, 1, Len(p)) = p

EndsWith(s, p) ==
    Len(p) <= Len(s) /\ SubSeq(s, Len(s) - Len(p) + 1, Len(s)) = p

RECURSIVE LStrip(_)
LStrip(s) == IF s # <<>> /\ Head(s) = " " THEN LStrip(Tail(s)) ELSE s

RECURSIVE RStrip(_)
RStrip(s) ==
    IF s # <<>> /\ s[Len(s)] = " " THEN RStrip(SubSeq(s, 1, Len(s) - 1)) ELSE s

Strip(s) == RStrip(LStrip(s))

\* s.split(sep): the pieces between the separators, empty pieces kept, so the
\* result always has at least one element.
RECURSIVE SplitAcc(_, _, _)
SplitAcc(s, sep, cur) ==
    IF s = <<>> THEN << cur >>
    ELSE IF Head(s) = sep THEN << cur >> \o SplitAcc(Tail(s), sep, <<>>)
    ELSE SplitAcc(Tail(s), sep, Append(cur, Head(s)))

Split(s, sep) == SplitAcc(s, sep, <<>>)

Min(a, b) == IF a <= b THEN a ELSE b

(***************************************************************************)
(* Descriptors.  list_dataset_files builds each one as a dict with the     *)
(* keys "rfilename" and "url".  A dict gives its values by subscription;   *)
(* attribute access reaches only the methods of the dict type.             *)
(***************************************************************************)
AttributeError == "AttributeError"

DictMethods == {"get", "items", "keys", "values"}

hf_hub_url(f) == << "hub:" >> \o f

FileInfo(f) == [rfilename |-> f, url |-> hf_hub_url(f)]

GetItem(d, key) == d[key]

GetAttr(d, name) == IF name \in DictMethods THEN name ELSE AttributeError

(***************************************************************************)
(* filter_files                                                            *)
(***************************************************************************)
Returned(v) == [raised |-> FALSE, val |-> v, exc |-> "none"]
Raised(e) == [raised |-> TRUE, val |-> <<>>, exc |-> e]

\* Python's truth of `extensions` (a str or None) and of `limit` (an int or None)
TruthyStr(o) == o.some /\ o.val # <<>>
TruthyInt(o) == o.some /\ o.val # 0

\* lines 120-121
ExtList(extensions) ==
    LET parts == Split(extensions, ",")
        low == [i \in 1..Len(parts) |-> LowerStr(Strip(parts[i]))]
    IN  [i \in 1..Len(low) |->
            IF StartsWith(low[i], << "." >>) THEN low[i] ELSE << "." >> \o low[i]]

MatchesAny(name, ext_list) ==
    \E i \in 1..Len(ext_list) : EndsWith(LowerStr(name), ext_list[i])

\* files[:limit]
Slice(s, n) ==
    IF n >= 0 THEN SubSeq(s, 1, Min(n, Len(s)))
    ELSE SubSeq(s, 1, IF Len(s) + n > 0 THEN Len(s) + n ELSE 0)

ApplyLimit(fl, limit) == IF TruthyInt(limit) THEN Slice(fl, limit.val) ELSE fl

filter_files(fl, extensions, limit) ==
    IF TruthyStr(extensions)
    THEN LET ext_list == ExtList(extensions.val)
         IN  IF \E i \in 1..Len(fl) : GetAttr(fl[i], "rfilename") = AttributeError
             THEN Raised(AttributeError)
             ELSE Returned(ApplyLimit(
                      SelectSeq(fl, LAMBDA f :
                          MatchesAny(GetAttr(f, "rfilename"), ext_list)),
                      limit))
    ELSE Returned(ApplyLimit(fl, limit))

(***************************************************************************)
(* Paths.  A pathlib path is its parts and whether it is absolute; joining *)
(* with an absolute path gives that path.  The kernel resolves a path from *)
(* the working directory, ".." stepping to the parent.                     *)
(***************************************************************************)
Cwd == << << "w" >> >>

Keep(part) == part # <<>> /\ part # << "." >>

Path(s) == [abs |-> StartsWith(s, << "/" >>),
            parts |-> SelectSeq(Split(s, "/"), Keep)]

Join(base, p) ==
    IF p.abs THEN p ELSE [abs |-> base.abs, parts |-> base.parts \o p.parts]

Parent(p) ==
    [abs |-> p.abs,
     parts |-> IF p.parts = <<>> THEN <<>>
               ELSE SubSeq(p.parts, 1, Len(p.parts) - 1)]

RECURSIVE Walk(_, _)
Walk(at, parts) ==
    IF parts = <<>> THEN at
    ELSE IF Head(parts) = << ".", "." >>
         THEN Walk(IF at = <<>> THEN at ELSE SubSeq(at, 1, Len(at) - 1),
                   Tail(parts))
         ELSE Walk(Append(at, Head(parts)), Tail(parts))

Resolve(p) == Walk(IF p.abs THEN <<>> ELSE Cwd, p.parts)

\* the directories p.mkdir(parents=True, exist_ok=True) leaves in existence
MadeDirs(p) ==
    {Resolve([abs |-> p.abs, parts |-> SubSeq(p.parts, 1, k)]) :
        k \in 0..Len(p.parts)}

Under(loc, root) == Len(root) <= Len(loc) /\ SubSeq(loc, 1, Len(root)) = root

\* str.replace("/", "_")
ReplaceSlash(s) == [i \in 1..Len(s) |-> IF s[i] = "/" THEN "_" ELSE s[i]]

get_output_dir(dataset, output) ==
    IF TruthyStr(output) THEN Path(output.val) ELSE Path(ReplaceSlash(dataset))

(***************************************************************************)
(* The inputs of a run.                                                    *)
(***************************************************************************)
Dataset == << "u", "/", "p" >>
Output == None

HiddenName == << ".", "x" >>
SubdirName == << "d", "/", "b", ".", "P", "N", "G" >>
AbsoluteName == << "/", "e" >>
TraversalName == << "d", "/", ".", ".", "/", ".", ".", "/", "c" >>
PlainName == << "a", ".", "p", "n", "g" >>
JsonName == << "b", ".", "j", "s", "o", "n" >>

\* What the repository holds, in the order the hub lists it.
RepoNames == << HiddenName, SubdirName, AbsoluteName, TraversalName >>

RECURSIVE Increasing(_)
Increasing(s) ==
    Len(s) < 2 \/ (s[1] < s[2] /\ Increasing(Tail(s)))

\* The listings of at most n files: the repository's names, none twice.
Picks(n) ==
    {s \in UNION {[1..k -> 1..Len(RepoNames)] : k \in 0..n} : Increasing(s)}

Listings ==
    {[error |-> "none", names |-> [i \in 1..Len(s) |-> RepoNames[s[i]]]] :
        s \in Picks(MaxFiles)}

ListingErrors ==
    {[error |-> e, names |-> <<>>] :
        e \in {"RepositoryNotFoundError", "GatedRepoError", "Exception"}}

FilterChoices == {None, Some(<< "P", "N", "G" >>)}

LimitChoices == {None} \cup {Some(l) : l \in (-1)..MaxLimit}

(***************************************************************************)
(* What a future holds, and the messages download_file makes.              *)
(***************************************************************************)
Msg(prefix, file, tail) == [prefix |-> prefix, file |-> file, tail |-> tail]
EmptyMsg == Msg("", <<>>, "")

NoResult ==
    [kind |-> "none", filename |-> <<>>, success |-> FALSE, message |-> EmptyMsg]
Outcome(filename, success, message) ==
    [kind |-> "outcome", filename |-> filename, success |-> success,
     message |-> message]
Exception(e) ==
    [kind |-> "exception", filename |-> <<>>, success |-> FALSE,
     message |-> Msg("", <<>>, e)]

At(pos, k) == [pos |-> pos, k |-> k]

N == Len(files)
Items == 1..N
output_dir == get_output_dir(Dataset, Output)
file_path(i) == Join(output_dir, Path(GetItem(files[i], "rfilename")))
Running(i) == st[i].pos \in {"mkdir", "get", "open", "write"}
Finished(i) == st[i].pos = "done"
Active == {t \in DOMAIN thr : thr[t] # 0}
\* line 262: the executor was created
PoolOpen == thr # <<>>

InitialDirs == {SubSeq(Cwd, 1, k) : k \in 0..Len(Cwd)}

\* The ways the process ends; pc names which.
Halts == {"listing_failed", "no_files", "no_match", "dry_run", "crashed", "done"}
\* sys.exit(1) of the handlers of list_dataset_files (lines 198, 202, 205)
ListingFailedStatus(e) == 1
\* sys.exit(0) of lines 232, 238 and 246
EarlyExitStatus(why) == 0
\* an exception nothing catches: the traceback, and status 1
UncaughtStatus(e) == 1
\* a slip: the status made to tell whether any file failed
CompletionStatusByFailures(failed) == IF failed > 0 THEN 1 ELSE 0
\* main returns (line 289), whatever the counters hold
CompletionStatus(failed) == 0

Exit(why, code) == pc' = why /\ exit_code' = code

\* No earlier run: the command runs on a filesystem it has not touched.
NoPrev == [n |-> 0, took |-> <<>>, result |-> <<>>, files |-> {}]

\* The network and the disk give item i's call the answer a.  When the same
\* command ran before, the conditions are those of that run: each step gets
\* the answer it got then.
SameConditions(i, a) ==
    IF prev.n = 0 \/ i \notin DOMAIN prev.took
    THEN TRUE
    ELSE IF Len(took[i]) >= Len(prev.took[i])
         THEN TRUE
         ELSE prev.took[i][Len(took[i]) + 1] = a
Answer(i, a) ==
    /\ SameConditions(i, a)
    /\ took' = [took EXCEPT ![i] = Append(@, a)]

(***************************************************************************)
(* The state after argument parsing.                                       *)
(***************************************************************************)
Start ==
    /\ pc = "start"
    /\ files = <<>>
    /\ exit_code = -1
    /\ fs = [dirs |-> InitialDirs, files |-> {}]
    /\ submitted = 0
    /\ thr = <<>>
    /\ st = <<>>
    /\ result = <<>>
    /\ pending = {}
    /\ collected = <<>>
    /\ success_count = 0
    /\ fail_count = 0
    /\ progress_n = 0
    /\ printed = <<>>
    /\ filtered = Returned(<<>>)
    /\ took = <<>>
    /\ prev = NoPrev

Init ==
    /\ args \in [threads : 0..MaxThreads, filter : FilterChoices,
                 limit : LimitChoices, progress : BOOLEAN,
                 verbose : BOOLEAN, dry_run : BOOLEAN]
    /\ env \in [tqdm : BOOLEAN, listing : Listings \cup ListingErrors]
    /\ args.progress \/ env.tqdm
    /\ Start

(***************************************************************************)
(* main, up to the thread pool.                                            *)
(***************************************************************************)
Visible(f) == ~StartsWith(f, << "." >>)

\* lines 179-193: the names that do not start with ".", each made a dict
list_dataset_files(listing) ==
    LET names == SelectSeq(listing.names, Visible)
    IN  [i \in 1..Len(names) |-> FileInfo(names[i])]

\* lines 227-232, and the handlers of list_dataset_files (195-205)
ListFiles ==
    /\ pc = "start"
    /\ IF env.listing.error # "none"
       THEN /\ Exit("listing_failed", ListingFailedStatus(env.listing.error))
            /\ UNCHANGED files
       ELSE /\ files' = list_dataset_files(env.listing)
            /\ IF files' = <<>>
               THEN Exit("no_files", EarlyExitStatus("no_files"))
               ELSE pc' = "filter" /\ UNCHANGED exit_code
    /\ UNCHANGED << args, env, fs, submitted, thr, st, result, pending,
                    collected, success_count, fail_count, progress_n,
                    printed, filtered,
                    took, prev >>

\* a slip: the flag never looked at
DryRunIgnored == FALSE
\* line 242
DryRun == args.dry_run

\* lines 234-246; an exception of filter_files is not caught, and ends the
\* process with status 1
FilterStage ==
    /\ pc = "filter"
    /\ filtered' = filter_files(files, args.filter, args.limit)
    /\ IF filtered'.raised
       THEN Exit("crashed", UncaughtStatus(filtered'.exc)) /\ UNCHANGED files
       ELSE /\ files' = filtered'.val
            /\ IF files' = <<>>
               THEN Exit("no_match", EarlyExitStatus("no_match"))
               ELSE IF DryRun
               THEN Exit("dry_run", EarlyExitStatus("dry_run"))
               ELSE pc' = "mkroot" /\ UNCHANGED exit_code
    /\ UNCHANGED << args, env, fs, submitted, thr, st, result, pending,
                    collected, success_count, fail_count, progress_n, printed,
                    took, prev >>

\* lines 248-260: the output directory, the counters, the progress bar
MakeRoot ==
    /\ pc = "mkroot"
    /\ \E ok \in BOOLEAN :
        IF ok
        THEN /\ fs' = [fs EXCEPT !.dirs = @ \cup MadeDirs(output_dir)]
             /\ args' = [args EXCEPT !.progress = @ /\ env.tqdm]
             /\ pc' = "pool"
             /\ UNCHANGED exit_code
        ELSE Exit("crashed", UncaughtStatus("OSError")) /\ UNCHANGED << fs, args >>
    /\ success_count' = 0
    /\ fail_count' = 0
    /\ UNCHANGED << env, files, submitted, thr, st, result, pending,
                    collected, progress_n, printed, filtered,
                    took, prev >>

\* line 262: ThreadPoolExecutor(max_workers) raises ValueError below 1
OpenPool ==
    /\ pc = "pool"
    /\ IF args.threads <= 0
       THEN /\ Exit("crashed", UncaughtStatus("ValueError"))
            /\ UNCHANGED << thr, st, result, collected, printed, took >>
       ELSE /\ thr' = [t \in 1..args.threads |-> 0]
            /\ took' = [i \in Items |-> <<>>]
            /\ st' = [i \in Items |-> At("new", 0)]
            /\ result' = [i \in Items |-> NoResult]
            /\ collected' = [i \in Items |-> 0]
            /\ printed' = [i \in Items |-> 0]
            /\ pc' = "submit"
            /\ UNCHANGED exit_code
    /\ UNCHANGED << args, env, files, fs, submitted, pending, success_count,
                    fail_count, progress_n, filtered, prev >>

\* a slip: as_completed entered after the first submit
SubmitLeavesEarly ==
    /\ pc = "submit"
    /\ submitted < N
    /\ submitted' = submitted + 1
    /\ st' = [st EXCEPT ![submitted + 1] = At("queued", 0)]
    /\ pc' = "collect"
    /\ pending' = Items
    /\ UNCHANGED << args, env, files, exit_code, fs, thr, result, collected,
                    success_count, fail_count, progress_n, printed, filtered,
                    took, prev >>

\* lines 263-266: one executor.submit; after the last, as_completed is given
\* every future
Submit ==
    /\ pc = "submit"
    /\ submitted < N
    /\ submitted' = submitted + 1
    /\ st' = [st EXCEPT ![submitted + 1] = At("queued", 0)]
    /\ IF submitted' = N
       THEN pc' = "collect" /\ pending' = Items
       ELSE UNCHANGED << pc, pending >>
    /\ UNCHANGED << args, env, files, exit_code, fs, thr, result, collected,
                    success_count, fail_count, progress_n, printed, filtered,
                    took, prev >>

(***************************************************************************)
(* The pool's threads.  Each thread runs one work item at a time, taken    *)
(* from the head of the executor's queue; the threads are alike, and the   *)
(* lowest idle one stands for whichever takes the item.                    *)
(***************************************************************************)
Queued == {i \in DOMAIN st : st[i].pos = "queued"}
QueueHead == CHOOSE i \in Queued : \A j \in Queued : i <= j
\* a slip: a thread handed work while it still runs an item
IdleAlways(t) == TRUE
Idle(t) == thr[t] = 0
Taker == CHOOSE t \in DOMAIN thr : Idle(t) /\ \A u \in DOMAIN thr : Idle(u) => t <= u

WorkerTake ==
    /\ pc \in {"submit", "collect", "unwind"}
    /\ Queued # {}
    /\ \E t \in DOMAIN thr : Idle(t)
    /\ thr' = [thr EXCEPT ![Taker] = QueueHead]
    /\ st' = [st EXCEPT ![QueueHead] = At("mkdir", 0)]
    /\ UNCHANGED << args, env, pc, files, exit_code, fs, submitted, result,
                    pending, collected, success_count, fail_count, progress_n,
                    printed, filtered,
                    took, prev >>

\* the call ends: the future gets its result and the thread is idle again
Finish(t, res) ==
    /\ result' = [result EXCEPT ![thr[t]] = res]
    /\ st' = [st EXCEPT ![thr[t]].pos = "done"]
    /\ thr' = [thr EXCEPT ![t] = 0]

\* a slip: the call counting its own success in main's counter
WorkerFrameTally ==
    /\ success_count' = success_count + 1
    /\ UNCHANGED << args, env, pc, files, exit_code, submitted, pending,
                    collected, fail_count, progress_n, printed, filtered,
                    prev >>

WorkerFrame ==
    UNCHANGED << args, env, pc, files, exit_code, submitted, pending,
                 collected, success_count, fail_count, progress_n, printed,
                 filtered, prev >>

\* a slip: the handler of line 164 reporting a success
FailedAsSuccess(i, e) ==
    Outcome(GetItem(files[i], "rfilename"), TRUE,
            Msg("Failed: ", GetItem(files[i], "rfilename"), e))
Failed(i, e) ==
    Outcome(GetItem(files[i], "rfilename"), FALSE,
            Msg("Failed: ", GetItem(files[i], "rfilename"), e))
IOFailed(i, e) ==
    Outcome(GetItem(files[i], "rfilename"), FALSE,
            Msg("IO Error: ", GetItem(files[i], "rfilename"), e))
Downloaded(i) ==
    Outcome(GetItem(files[i], "rfilename"), TRUE,
            IF args.verbose
            THEN Msg("Downloaded: ", GetItem(files[i], "rfilename"), "")
            ELSE EmptyMsg)

\* lines 142-146, before the try: an OSError of mkdir leaves download_file
MkdirRaises(i) == Exception("OSError")

WorkerMkdir(t) ==
    /\ thr[t] # 0 /\ st[thr[t]].pos = "mkdir"
    /\ \E ok \in BOOLEAN :
        /\ Answer(thr[t], IF ok THEN "ok" ELSE "OSError")
        /\ IF ok
           THEN /\ fs' = [fs EXCEPT
                           !.dirs = @ \cup MadeDirs(Parent(file_path(thr[t])))]
                /\ st' = [st EXCEPT ![thr[t]].pos = "get"]
                /\ UNCHANGED << thr, result >>
           ELSE Finish(t, MkdirRaises(thr[t])) /\ UNCHANGED fs
    /\ WorkerFrame

\* lines 149-154 and 164-165: requests.get, raise_for_status
WorkerGet(t) ==
    /\ thr[t] # 0 /\ st[thr[t]].pos = "get"
    /\ \E how \in {"ok", "HTTPError", "ConnectionError"} :
        /\ Answer(thr[t], how)
        /\ IF how = "ok"
           THEN st' = [st EXCEPT ![thr[t]].pos = "open"] /\ UNCHANGED << thr, result >>
           ELSE Finish(t, Failed(thr[t], how))
    /\ UNCHANGED fs
    /\ WorkerFrame

\* a slip: the file opened for appending, what it held is kept
OpenForAppend(fl, loc) ==
    IF \E f \in fl : f.loc = loc THEN fl ELSE fl \cup {[loc |-> loc, data |-> <<>>]}
\* mode "wb": the file is created, or cut to no bytes when it exists
Truncate(fl, loc) ==
    {f \in fl : f.loc # loc} \cup {[loc |-> loc, data |-> <<>>]}
AppendTo(fl, loc, chunk) ==
    {IF f.loc = loc THEN [f EXCEPT !.data = Append(@, chunk)] ELSE f : f \in fl}
Chunk(i, k) == [of |-> GetItem(files[i], "url"), k |-> k]

\* lines 156 and 166-167: open(file_path, "wb")
WorkerOpen(t) ==
    /\ thr[t] # 0 /\ st[thr[t]].pos = "open"
    /\ \E ok \in BOOLEAN :
        /\ Answer(thr[t], IF ok THEN "ok" ELSE "OSError")
        /\ IF ok
           THEN /\ fs' = [fs EXCEPT
                           !.files = Truncate(@, Resolve(file_path(thr[t])))]
                /\ st' = [st EXCEPT ![thr[t]].pos = "write"]
                /\ UNCHANGED << thr, result >>
           ELSE Finish(t, IOFailed(thr[t], "OSError")) /\ UNCHANGED fs
    /\ WorkerFrame

\* lines 157-158 and 164-167: one chunk read from the response and written
WorkerChunk(t) ==
    /\ thr[t] # 0 /\ st[thr[t]].pos = "write" /\ st[thr[t]].k < NumChunks
    /\ \E how \in {"ok", "ChunkedEncodingError", "OSError"} :
        /\ Answer(thr[t], how)
        /\ CASE how = "ok" ->
                   /\ fs' = [fs EXCEPT !.files =
                               AppendTo(@, Resolve(file_path(thr[t])),
                                        Chunk(thr[t], st[thr[t]].k + 1))]
                   /\ st' = [st EXCEPT ![thr[t]].k = @ + 1]
                   /\ UNCHANGED << thr, result >>
             [] how = "ChunkedEncodingError" ->
                   Finish(t, Failed(thr[t], how)) /\ UNCHANGED fs
             [] how = "OSError" ->
                   Finish(t, IOFailed(thr[t], how)) /\ UNCHANGED fs
    /\ WorkerFrame

\* lines 156-162: the response is exhausted, the file closed, the tuple returned
WorkerReturn(t) ==
    /\ thr[t] # 0 /\ st[thr[t]].pos = "write" /\ st[thr[t]].k = NumChunks
    /\ Finish(t, Downloaded(thr[t]))
    /\ UNCHANGED << fs, took >>
    /\ WorkerFrame

Worker(t) ==
    \/ WorkerMkdir(t)
    \/ WorkerGet(t)
    \/ WorkerOpen(t)
    \/ WorkerChunk(t)
    \/ WorkerReturn(t)

(***************************************************************************)
(* main: the loop over as_completed, and the end.                          *)
(***************************************************************************)
Truthy(message) == message # EmptyMsg

\* a slip: the failure's message printed only under --verbose
FailurePrintsIfVerbose(r) ==
    IF ~r.success /\ args.verbose /\ Truthy(r.message) THEN 1 ELSE 0
\* lines 271-276
FailurePrints(r) == IF ~r.success /\ Truthy(r.message) THEN 1 ELSE 0
\* a slip: the two branches of lines 278-281 in the other order
TicksAfterVerbose(r) ==
    IF args.verbose /\ Truthy(r.message) THEN 0
    ELSE IF args.progress THEN 1 ELSE 0
\* lines 278-279
Ticks(r) == IF args.progress THEN 1 ELSE 0
\* lines 280-281
VerbosePrints(r) ==
    IF ~args.progress /\ args.verbose /\ Truthy(r.message) THEN 1 ELSE 0
\* as_completed yields a future once
Yielded(i) == pending \ {i}
\* a slip: the loop left with one future still to come
DrainedEarly == Cardinality(pending) <= 1
\* the for loop ends when as_completed has yielded every future
Drained == pending = {}

\* lines 268-281: one turn of the loop.  future.result() raises what the call
\* raised; nothing in main catches it.
Collect ==
    /\ pc = "collect"
    /\ \E i \in pending :
        /\ result[i].kind # "none"
        /\ IF result[i].kind = "exception"
           THEN /\ pc' = "unwind"
                /\ UNCHANGED << pending, collected, success_count, fail_count,
                                progress_n, printed >>
           ELSE /\ pending' = Yielded(i)
                /\ collected' = [collected EXCEPT ![i] = @ + 1]
                /\ success_count' =
                       success_count + (IF result[i].success THEN 1 ELSE 0)
                /\ fail_count' = fail_count + (IF result[i].success THEN 0 ELSE 1)
                /\ progress_n' = progress_n + Ticks(result[i])
                /\ printed' = [printed EXCEPT ![i] =
                       @ + FailurePrints(result[i]) + VerbosePrints(result[i])]
                /\ UNCHANGED pc
    /\ UNCHANGED << args, env, files, exit_code, fs, submitted, thr, st,
                    result, filtered,
                    took, prev >>

\* lines 283-289: every future was yielded; the summary, and main returns
Summary ==
    /\ pc = "collect"
    /\ Drained
    /\ Exit("done", CompletionStatus(fail_count))
    /\ UNCHANGED << args, env, files, fs, submitted, thr, st, result, pending,
                    collected, success_count, fail_count, progress_n, printed,
                    filtered,
                    took, prev >>

\* line 262: leaving the with block on an exception waits for the work that
\* is left (shutdown(wait=True)), then the traceback and status 1
Unwind ==
    /\ pc = "unwind"
    /\ \A i \in Items : Finished(i)
    /\ Exit("crashed", UncaughtStatus("OSError"))
    /\ UNCHANGED << args, env, files, fs, submitted, thr, st, result, pending,
                    collected, success_count, fail_count, progress_n, printed,
                    filtered,
                    took, prev >>

Next ==
    \/ ListFiles
    \/ FilterStage
    \/ MakeRoot
    \/ OpenPool
    \/ Submit
    \/ WorkerTake
    \/ \E t \in DOMAIN thr : WorkerMkdir(t)
    \/ \E t \in DOMAIN thr : WorkerGet(t)
    \/ \E t \in DOMAIN thr : WorkerOpen(t)
    \/ \E t \in DOMAIN thr : WorkerChunk(t)
    \/ \E t \in DOMAIN thr : WorkerReturn(t)
    \/ Collect
    \/ Summary
    \/ Unwind

Spec == Init /\ [][Next]_vars

(***************************************************************************)
(* The same command run a second time, once: main starts again on the      *)
(* filesystem the first run left, with the same arguments, the same        *)
(* listing, and the network and the disk answering each call as before.    *)
(***************************************************************************)
Rerun ==
    /\ pc \in {"done", "crashed"}
    /\ PoolOpen
    /\ prev.n = 0
    /\ prev' = [n |-> 1, took |-> took, result |-> result, files |-> fs.files]
    /\ pc' = "start"
    /\ files' = <<>>
    /\ exit_code' = -1
    /\ submitted' = 0
    /\ thr' = <<>>
    /\ st' = <<>>
    /\ result' = <<>>
    /\ pending' = {}
    /\ collected' = <<>>
    /\ success_count' = 0
    /\ fail_count' = 0
    /\ progress_n' = 0
    /\ printed' = <<>>
    /\ filtered' = Returned(<<>>)
    /\ took' = <<>>
    /\ UNCHANGED << args, env, fs >>

RerunInit ==
    /\ args \in [threads : 1..MaxThreads, filter : {None}, limit : {None},
                 progress : {FALSE}, verbose : {FALSE}, dry_run : {FALSE}]
    /\ env \in [tqdm : {TRUE}, listing : Listings]
    /\ Start

RerunSpec == RerunInit /\ [][Next \/ Rerun]_vars

(***************************************************************************)
(* The same program under fair scheduling: main keeps running while it can *)
(* take a step, and the operating system starves no thread of the pool.    *)
(***************************************************************************)
MainStep ==
    \/ ListFiles
    \/ FilterStage
    \/ MakeRoot
    \/ OpenPool
    \/ Submit
    \/ Collect
    \/ Summary
    \/ Unwind

FairSpec ==
    /\ Spec
    /\ WF_vars(MainStep)
    /\ WF_vars(WorkerTake)
    /\ \A t \in 1..MaxThreads : WF_vars(t \in DOMAIN thr /\ Worker(t))

(***************************************************************************)
(* filter_files on its own: a manifest of the manifest stage, an extension *)
(* string and a limit are drawn, and the function is applied once.         *)
(***************************************************************************)
NoDotName == << "p", "n", "g" >>
ManifestNames == { PlainName, JsonName, SubdirName, NoDotName }

Manifests ==
    {[error |-> "none", names |-> m] :
        m \in UNION {[1..k -> ManifestNames] : k \in 0..MaxManifest}}

ExtensionChoices ==
    { None,
      Some(<<>>),
      Some(<< "p", "n", "g" >>),
      Some(<< ".", "P", "N", "G" >>),
      Some(<< ".", "j", "s", "o", "n", ",", " ", "p", "n", "g" >>) }

CapChoices == {None} \cup {Some(l) : l \in (-1)..MaxCap}

FilterInit ==
    /\ args \in [threads : {1}, filter : ExtensionChoices, limit : CapChoices,
                 progress : {FALSE}, verbose : {FALSE}, dry_run : {FALSE}]
    /\ env \in [tqdm : {TRUE}, listing : Manifests]
    /\ pc = "call"
    /\ files = list_dataset_files(env.listing)
    /\ exit_code = -1
    /\ fs = [dirs |-> InitialDirs, files |-> {}]
    /\ submitted = 0
    /\ thr = <<>>
    /\ st = <<>>
    /\ result = <<>>
    /\ pending = {}
    /\ collected = <<>>
    /\ success_count = 0
    /\ fail_count = 0
    /\ progress_n = 0
    /\ printed = <<>>
    /\ filtered = Returned(<<>>)
    /\ took = <<>>
    /\ prev = NoPrev

FilterCall ==
    /\ pc = "call"
    /\ filtered' = filter_files(files, args.filter, args.limit)
    /\ pc' = "returned"
    /\ UNCHANGED << args, env, files, exit_code, fs, submitted, thr, st,
                    result, pending, collected, success_count, fail_count,
                    progress_n, printed,
                    took, prev >>

FilterSpec == FilterInit /\ [][FilterCall]_vars

(***************************************************************************)
(* Properties.                                                             *)
(***************************************************************************)
RECURSIVE SumSeq(_)
SumSeq(q) == IF q = <<>> THEN 0 ELSE Head(q) + SumSeq(Tail(q))

Succeeded == {i \in DOMAIN result : result[i].kind = "outcome" /\ result[i].success}
FailedItems == {i \in DOMAIN result : result[i].kind = "outcome" /\ ~result[i].success}

\* C1: when the final summary is reported, every descriptor was submitted
\* once, every call has ended, each descriptor's outcome was collected exactly
\* once and carries that descriptor's path, and succeeded + failed = N.
C1_OneOutcomePerDescriptor ==
    pc = "done" =>
        /\ submitted = N
        /\ DOMAIN result = Items
        /\ \A i \in Items :
            /\ Finished(i)
            /\ result[i].kind = "outcome"
            /\ result[i].filename = GetItem(files[i], "rfilename")
            /\ collected[i] = 1
        /\ SumSeq(collected) = N
        /\ success_count = Cardinality(Succeeded)
        /\ fail_count = Cardinality(FailedItems)
        /\ success_count + fail_count = N

C1_Witness ==
    /\ pc = "done"
    /\ N = MaxFiles
    /\ success_count = 1
    /\ fail_count = N - 1

\* C2: download_file never raises: every call that has ended left an outcome
\* in its future, and a failed outcome has a non-empty message naming the file.
C2_WorkerNeverRaises ==
    \A i \in DOMAIN st :
        Finished(i) =>
            /\ result[i].kind = "outcome"
            /\ ~result[i].success =>
                   /\ Truthy(result[i].message)
                   /\ result[i].message.file = GetItem(files[i], "rfilename")

\* C3: at most --threads calls of download_file are in progress, every call
\* in progress is run by exactly one thread, and a thread leaves the item
\* it runs only when that item's call has ended; with one thread no two
\* calls overlap.
C3_Bound ==
    PoolOpen =>
        /\ Cardinality({i \in Items : Running(i)}) <= args.threads
        /\ Cardinality(Active) <= args.threads
        /\ \A i \in Items :
               Running(i) <=> Cardinality({t \in DOMAIN thr : thr[t] = i}) = 1
        /\ args.threads = 1 => Cardinality({i \in Items : Running(i)}) <= 1

C3_Step ==
    \A t \in DOMAIN thr :
        (t \in DOMAIN thr' /\ thr[t] # 0 /\ thr'[t] # thr[t]) =>
            /\ thr'[t] = 0
            /\ st'[thr[t]].pos = "done"

C3_BoundedPool == [](C3_Bound) /\ [][C3_Step]_vars

C3_Witness ==
    /\ PoolOpen
    /\ args.threads = 1
    /\ N = 2
    /\ Running(2)
    /\ Finished(1)

\* C4: once the pool is open, under fair scheduling every descriptor gets an
\* outcome and the final summary is reached.
C4_JobTerminates ==
    (pc = "submit") ~>
        (pc = "done" /\ \A i \in Items : result[i].kind = "outcome")

\* C5: with no extension filter, a limit L >= 0 that is set gives exactly the
\* first min(len(M), L) elements of the manifest, and an unset limit gives
\* the whole manifest.
C5_LimitIsMin ==
    (pc = "returned" /\ args.filter = None) =>
        /\ ~filtered.raised
        /\ (args.limit.some /\ args.limit.val >= 0) =>
               filtered.val = SubSeq(files, 1, Min(Len(files), args.limit.val))
        /\ ~args.limit.some => filtered.val = files

\* The members of an extension set given as text: the comma-separated
\* tokens without the blanks around them, each made to start with ".".
C6_Members(e) ==
    LET tokens == Split(e, ",")
    IN  {IF StartsWith(Strip(tokens[i]), << "." >>)
         THEN Strip(tokens[i]) ELSE << "." >> \o Strip(tokens[i]) :
            i \in 1..Len(tokens)}

C6_Match(f) ==
    \E m \in C6_Members(args.filter.val) :
        EndsWith(LowerStr(GetItem(f, "rfilename")), LowerStr(m))

\* C6: with a non-empty extension set and no limit, filter_files returns without
\* error the descriptors of the manifest whose path ends, whatever the case,
\* in a normalized member of the set, in the manifest's order.
C6_ExtensionSubsequence ==
    (pc = "returned" /\ TruthyStr(args.filter) /\ ~args.limit.some) =>
        /\ ~filtered.raised
        /\ filtered.val = SelectSeq(files, C6_Match)

Root == Resolve(output_dir)

\* C7: every directory a run makes and every file it writes lies under the
\* destination root.
C7_WritesStayUnderRoot ==
    /\ \A d \in fs.dirs \ InitialDirs : Under(d, Root)
    /\ \A f \in fs.files : Under(f.loc, Root)

ProgressEnabled == PoolOpen /\ args.progress

\* C8: with the progress bar in use, it has been ticked once for every
\* outcome collected so far, whether the outcome is a success or a failure
\* and whether or not --verbose is given; at the summary it stands at N.
C8_OneTickPerOutcome ==
    ProgressEnabled =>
        /\ progress_n = SumSeq(collected)
        /\ progress_n = success_count + fail_count
        /\ pc = "done" => progress_n = N

C8_Witness ==
    /\ pc = "done"
    /\ ProgressEnabled
    /\ args.verbose
    /\ N = 2
    /\ success_count = 1
    /\ fail_count = 1
    /\ progress_n = 2

\* C9: the step that collects a failed outcome with a non-empty message
\* prints that message, under every setting of --verbose and --progress.
C9_Step ==
    \A i \in DOMAIN collected :
        (/\ i \in DOMAIN collected'
         /\ collected'[i] > collected[i]
         /\ ~result[i].success
         /\ Truthy(result[i].message)) => printed'[i] > printed[i]

C9_FailureSurfacedAtOnce == [][C9_Step]_vars

C9_Witness ==
    /\ pc = "collect"
    /\ pending # {}
    /\ args.progress
    /\ ~args.verbose
    /\ \E i \in Items :
        /\ collected[i] = 1
        /\ ~result[i].success
        /\ Truthy(result[i].message)
        /\ printed[i] = 1

\* C10 as stated: status 0 after the summary; a non-zero status when the
\* listing fails and when nothing matches the filter.
C10_NonZeroWhenNothingMatches ==
    /\ pc = "done" => exit_code = 0
    /\ pc = "listing_failed" => exit_code # 0
    /\ pc = "no_match" => exit_code # 0

\* C10, amended: status 0 after the summary, whatever number of files
\* failed, and status 0 too when filter_files returns an empty list; status 1,
\* which no completed job has, when the listing fails.
C10_ExitStatus ==
    /\ pc = "done" => exit_code = 0
    /\ pc = "no_match" => exit_code = 0
    /\ pc = "listing_failed" => exit_code = 1
    /\ pc \in Halts <=> exit_code # -1

C10_Witness ==
    /\ pc = "done"
    /\ exit_code = 0
    /\ fail_count = N
    /\ N = MaxFiles

Unchanged(f) == f.dirs = InitialDirs /\ f.files = {}

\* C11: with --threads below 1 the run stops before the destination root is
\* made and before any descriptor is submitted: the filesystem stays as it
\* was and the pool is never opened.
C11_BadThreadsLeaveNoTrace ==
    args.threads < 1 =>
        /\ Unchanged(fs)
        /\ submitted = 0
        /\ ~PoolOpen

\* C12: with --dry-run the pool is never opened, no descriptor is submitted,
\* no call of download_file starts, and no directory or file is made; the
\* run ends at the listing of the filtered descriptors or before it.
C12_DryRunTouchesNothing ==
    args.dry_run =>
        /\ pc \in {"start", "filter", "listing_failed", "no_files",
                   "no_match", "dry_run", "crashed"}
        /\ ~PoolOpen
        /\ submitted = 0
        /\ st = <<>>
        /\ result = <<>>
        /\ Unchanged(fs)
        /\ pc = "dry_run" => (exit_code = 0 /\ files = filtered.val /\ N > 0)

C12_Witness ==
    /\ args.dry_run
    /\ pc = "dry_run"
    /\ N = MaxFiles

\* C14: the counters change only in a turn of main's loop, which takes one
\* outcome and adds one to one counter while no call of download_file
\* moves; so succeeded + failed is the number of outcomes collected.
C14_Step ==
    (success_count' # success_count \/ fail_count' # fail_count) =>
        /\ pc = "collect"
        /\ thr' = thr /\ st' = st /\ result' = result /\ fs' = fs
        /\ \E i \in pending :
            /\ result[i].kind = "outcome"
            /\ collected' = [collected EXCEPT ![i] = @ + 1]
            /\ success_count' =
                   success_count + (IF result[i].success THEN 1 ELSE 0)
            /\ fail_count' = fail_count + (IF result[i].success THEN 0 ELSE 1)

C14_SingleAggregationPoint ==
    /\ [](success_count + fail_count = SumSeq(collected))
    /\ [][C14_Step]_vars

C14_Witness ==
    /\ pc = "collect"
    /\ success_count + fail_count = 1
    /\ SumSeq(collected) = 1
    /\ \E i \in Items : Running(i)

\* The coordinator's lifecycle: Idle 0, Dispatching 1, Draining 2,
\* Complete 3; 4 is a run that ended without a summary.
Phase(p) ==
    CASE p \in {"start", "filter", "mkroot", "pool"} -> 0
      [] p = "submit" -> 1
      [] p \in {"collect", "unwind"} -> 2
      [] p = "done" -> 3
      [] OTHER -> 4

\* C15: the lifecycle only moves forward; Draining is entered from
\* Dispatching with every descriptor submitted, Complete from Draining with
\* every outcome collected, and nothing is submitted outside Dispatching.
C15_Step ==
    /\ Phase(pc') >= Phase(pc)
    /\ (Phase(pc') = 1 /\ Phase(pc) # 1) => Phase(pc) = 0
    /\ (Phase(pc') = 2 /\ Phase(pc) # 2) =>
           (Phase(pc) = 1 /\ submitted' = Len(files'))
    /\ (Phase(pc') = 3 /\ Phase(pc) # 3) =>
           (Phase(pc) = 2 /\ \A i \in Items : collected[i] = 1)
    /\ submitted' # submitted => (Phase(pc) = 1 /\ submitted' = submitted + 1)

C15_LifecycleForward == [][C15_Step]_vars

C15_Witness ==
    /\ pc = "done"
    /\ N = MaxFiles
    /\ submitted = N

FullBody(i) == [k \in 1..NumChunks |-> Chunk(i, k)]
FileOf(i) == {f \in fs.files : f.loc = Resolve(file_path(i))}

\* C16: a call that reports success has read every chunk, and the file at
\* its target path holds exactly those chunks; a call that ended after its
\* file was opened and before the last chunk reports a failure.
C16_SuccessMeansWholeFile ==
    \A i \in DOMAIN result :
        /\ (result[i].kind = "outcome" /\ result[i].success) =>
               /\ Finished(i)
               /\ st[i].k = NumChunks
               /\ \E f \in FileOf(i) : f.data = FullBody(i)
        /\ (Finished(i) /\ \E f \in FileOf(i) : Len(f.data) < NumChunks) =>
               (result[i].kind = "outcome" /\ ~result[i].success)

C16_Witness ==
    /\ N = 2
    /\ PoolOpen
    /\ \E i \in Items : result[i].kind = "outcome" /\ result[i].success
    /\ \E i \in Items :
        /\ Finished(i)
        /\ \E f \in FileOf(i) : Len(f.data) < NumChunks
        /\ ~result[i].success

\* C17: no message is printed twice: a collected failure's message is
\* printed exactly once, a success's message at most once.
C17_PrintedAtMostOnce ==
    \A i \in DOMAIN printed :
        /\ printed[i] <= 1
        /\ (collected[i] = 1 /\ ~result[i].success /\ Truthy(result[i].message))
               => printed[i] = 1

\* The second run of the command has ended and its pool has no work left.
SecondRunEnded == prev.n = 1 /\ pc \in {"done", "crashed"} /\ PoolOpen

\* C13: when the same job is run a second time under the conditions of the
\* first run, every descriptor's call ends the way it ended the first time
\* (success, failure or exception), the files on disk after the second run
\* are those after the first run, byte for byte, and the file of every
\* successful descriptor holds its body once: the second open cut the file
\* to nothing, it neither appended to it nor left it alone.
C13_RerunIdempotent ==
    SecondRunEnded =>
        /\ DOMAIN result = DOMAIN prev.result
        /\ \A i \in DOMAIN result :
              /\ result[i].kind = prev.result[i].kind
              /\ result[i].success = prev.result[i].success
        /\ took = prev.took
        /\ fs.files = prev.files
        /\ \A i \in Succeeded :
              FileOf(i) = {[loc |-> Resolve(file_path(i)), data |-> FullBody(i)]}

\* a second run that re-downloaded one file over its first copy and failed
\* another descriptor again
C13_Witness ==
    /\ SecondRunEnded
    /\ pc = "done"
    /\ N = MaxFiles
    /\ Succeeded # {}
    /\ FailedItems # {}
    /\ \E i \in Succeeded : Len(took[i]) = NumChunks + 3

====

